---- MODULE Spec2Model ----
(***************************************************************************)
(* Model of src/ray-serve/vllm_engine.py: the VLLMDeployment ingress.      *)
(*                                                                         *)
(* One deployment instance serves MaxRequests HTTP requests.  A handler is *)
(* an asyncio coroutine: it runs without interruption from one await to    *)
(* the next, so every action below is the code between two awaits.  The    *)
(* engine (AsyncLLM) and the serving layer (OpenAIServingChat,             *)
(* OpenAIServingModels) are collaborators: their answers are chosen        *)
(* nondeterministically among the values their interface allows, and an    *)
(* awaited call may also raise.                                            *)
(***************************************************************************)
EXTENDS Integers, Sequences, FiniteSets, TLC

(* ------------------------------ bounds --------------------------------- *)
\* number of HTTP requests the instance receives
MaxRequests == 2
\* largest number of chunks one streamed completion produces
MaxChunks == 2

Requests == 1..MaxRequests
\* payloads a chunk of a streamed completion can carry; a streamed completion
\* has at least one chunk
ChunkData == {"c1", "c2"}
\* status codes an ErrorResponse of the serving layer can carry
ErrorCodes == {400, 404}

(* ------------------------------ state ---------------------------------- *)
VARIABLES
    openai_serving_chat,    \* self.openai_serving_chat: None or the identity of a facade
    facades_constructed,    \* number of OpenAIServingChat objects constructed so far
    facades_called,         \* the objects whose create_chat_completion has been called (line 90)
    get_model_config_calls, \* engine.get_model_config() invocations, per calling handler;
                            \* models_ready: those of list_models made with the facade set
    pc,                     \* per request: the await the handler is suspended at
    endpoint,               \* per request: "chat", "models" or "none" (not yet received)
    stream,                 \* per request: request.stream
    generator,              \* per request: what the serving layer's call returned
    response,               \* per request: what the handler returned to the framework
    delivered,              \* per request: chunks written to the client so far
    generation_calls,       \* per request: calls of openai_serving_chat.create_chat_completion
    config,                 \* self.engine_args.model, self.lora_modules, self.prompt_adapters
    models_given,           \* the registries handed to OpenAIServingModels so far
    cli_args,               \* build side: the caller's raw mapping, as it is now
    caller_args,            \* build side: the mapping as the caller made it
    calls                   \* build side: the translations made so far, oldest first

\* the state of the configuration translator (parse_vllm_args, build_app)
build_vars == <<cli_args, caller_args, calls>>

vars == <<openai_serving_chat, facades_constructed, facades_called,
          get_model_config_calls, pc,
          endpoint, stream, generator, response, delivered,
          generation_calls, config, models_given, build_vars>>

\* Requests are numbered in the order the deployment receives them: request r
\* can arrive once every request before it has
Arrives(r) ==
    /\ pc[r] = "idle"
    /\ \A q \in Requests : q < r => pc[q] # "idle"

\* the value of self.openai_serving_chat after __init__ (line 48); facades are 1, 2, ...
None == 0

RECURSIVE SeqsUpTo(_)
\* all sequences over ChunkData of length 1..n
SeqsUpTo(n) ==
    IF n = 0 THEN {}
    ELSE LET shorter == SeqsUpTo(n - 1)
         IN  {<<c>> : c \in ChunkData} \cup shorter
             \cup {Append(s, c) : s \in {t \in shorter : Len(t) = n - 1}, c \in ChunkData}

(* --------------------- values returned by the callees ------------------ *)
NoResult == [type |-> "None", code |-> 0, chunks |-> <<>>]
ErrorResponse(code) == [type |-> "ErrorResponse", code |-> code, chunks |-> <<>>]
ChatCompletionResponse == [type |-> "ChatCompletionResponse", code |-> 0, chunks |-> <<>>]
AsyncGenerator(chunks) == [type |-> "AsyncGenerator", code |-> 0, chunks |-> chunks]

\* OpenAIServingChat.create_chat_completion: an ErrorResponse, or the full
\* completion when request.stream is false, or a chunk generator when it is true
ServingChatResults(s) ==
    {ErrorResponse(c) : c \in ErrorCodes}
    \cup (IF s THEN {AsyncGenerator(ch) : ch \in SeqsUpTo(MaxChunks)}
               ELSE {ChatCompletionResponse})

(* ------------------------ responses of the handlers -------------------- *)
NoResponse ==
    [type |-> "None", status_code |-> 0, media_type |-> "", content |-> NoResult]
JSONResponse(content, status_code) ==
    [type |-> "JSONResponse", status_code |-> status_code,
     media_type |-> "application/json", content |-> content]
StreamingResponse(content, media_type) ==
    [type |-> "StreamingResponse", status_code |-> 200,
     media_type |-> media_type, content |-> content]
\* an exception that leaves the handler: no response object is returned
Unhandled(what) ==
    [type |-> "Unhandled", status_code |-> 0, media_type |-> what, content |-> NoResult]

\* variant: the stream flag is tested the wrong way round
ChatResponse_InvertedStream(gen, s) ==
    IF gen.type = "ErrorResponse"
    THEN JSONResponse(gen, gen.code)
    ELSE IF ~s
         THEN StreamingResponse(gen, "text/event-stream")
         ELSE IF gen.type = "ChatCompletionResponse"
              THEN JSONResponse(gen, 200)
              ELSE Unhandled("AssertionError")

\* variant: the handler pulls the first chunk itself before handing the rest on
ChatResponse_PeekFirst(gen, s) ==
    IF gen.type = "ErrorResponse"
    THEN JSONResponse(gen, gen.code)
    ELSE IF s
         THEN StreamingResponse([gen EXCEPT !.chunks = Tail(@)], "text/event-stream")
         ELSE IF gen.type = "ChatCompletionResponse"
              THEN JSONResponse(gen, 200)
              ELSE Unhandled("AssertionError")

\* variant: the stream flag is tested before the error test
ChatResponse_StreamFirst(gen, s) ==
    IF s
    THEN StreamingResponse(gen, "text/event-stream")
    ELSE IF gen.type = "ErrorResponse"
         THEN JSONResponse(gen, gen.code)
         ELSE IF gen.type = "ChatCompletionResponse"
              THEN JSONResponse(gen, 200)
              ELSE Unhandled("AssertionError")

\* lines 93-101: the response create_chat_completion returns for a result
ChatResponse(gen, s) ==
    IF gen.type = "ErrorResponse"
    THEN JSONResponse(gen, gen.code)
    ELSE IF s
         THEN StreamingResponse(gen, "text/event-stream")
         ELSE IF gen.type = "ChatCompletionResponse"
              THEN JSONResponse(gen, 200)
              ELSE Unhandled("AssertionError")

(* ------------------- the deployment's configuration -------------------- *)
\* an Optional[List[...]] argument of __init__ (lines 42-43): None, or a list
NoList == [none |-> TRUE, paths |-> <<>>]
ListOf(paths) == [none |-> FALSE, paths |-> paths]

\* the fields __init__ stores that the registry is built from (lines 49-52)
Config(model, lora_modules, prompt_adapters) ==
    [model |-> model, lora_modules |-> lora_modules, prompt_adapters |-> prompt_adapters]

\* configurations a deployment is constructed with
Configs ==
    { Config("m1", NoList, NoList),
      Config("m2", ListOf(<<"loraA", "loraB">>), ListOf(<<"adapterP">>)),
      Config("m1", ListOf(<<"loraB", "loraA">>), ListOf(<<>>)) }

\* the configuration of the deployment the serving claims are checked on
DeployedConfig == Config("m2", ListOf(<<"loraA", "loraB">>), ListOf(<<"adapterP">>))

BaseModelPath(name, model_path) == [name |-> name, model_path |-> model_path]

\* the arguments OpenAIServingModels is constructed with (lines 69-79, 108-118)
OpenAIServingModels(base_model_paths, lora_modules, prompt_adapters) ==
    [base_model_paths |-> base_model_paths, lora_modules |-> lora_modules,
     prompt_adapters |-> prompt_adapters]

(* ------------------------------- Init ---------------------------------- *)
\* the translator is not in use while the deployment serves
BuildIdle ==
    /\ cli_args = <<>>
    /\ caller_args = <<>>
    /\ calls = <<>>

\* __init__ (lines 47-55): no facade yet, no request received
ServingInit ==
    /\ openai_serving_chat = None
    /\ facades_constructed = 0
    /\ facades_called = {}
    /\ get_model_config_calls =
          [chat |-> 0, chat_after_failure |-> 0, models |-> 0, models_ready |-> 0]
    /\ pc = [r \in Requests |-> "idle"]
    /\ endpoint = [r \in Requests |-> "none"]
    /\ stream = [r \in Requests |-> FALSE]
    /\ generator = [r \in Requests |-> NoResult]
    /\ response = [r \in Requests |-> NoResponse]
    /\ delivered = [r \in Requests |-> <<>>]
    /\ generation_calls = [r \in Requests |-> 0]
    /\ models_given = {}

Init ==
    /\ config = DeployedConfig
    /\ BuildIdle
    /\ ServingInit

\* the deployment constructed with any of the configurations
InitRegistry ==
    /\ config \in Configs
    /\ BuildIdle
    /\ ServingInit

(* ------------------ POST /v1/chat/completions (lines 57-101) ----------- *)
\* a metadata query of a facade build has raised
BuildQueryFailed ==
    \E q \in Requests :
        endpoint[q] = "chat" /\ response[q] = Unhandled("get_model_config")

\* the registry lines 69-79 and 108-118 build from the fields of self
Registry ==
    OpenAIServingModels(<<BaseModelPath(config.model, config.model)>>,
                        config.lora_modules, config.prompt_adapters)

\* variant: the handler goes on to line 90 without the facade test of line 66
create_chat_completion_NoFacadeTest(r, s) ==
    /\ Arrives(r)
    /\ endpoint' = [endpoint EXCEPT ![r] = "chat"]
    /\ stream' = [stream EXCEPT ![r] = s]
    /\ facades_called' = facades_called \cup {openai_serving_chat}
    /\ generation_calls' = [generation_calls EXCEPT ![r] = @ + 1]
    /\ pc' = [pc EXCEPT ![r] = "await_create_chat_completion"]
    /\ UNCHANGED <<openai_serving_chat, facades_constructed, get_model_config_calls,
                   generator, response, delivered>>
    /\ UNCHANGED <<config, models_given, build_vars>>

\* The request arrives and the handler runs to its first await: the facade
\* test of line 66, then either get_model_config (line 67) or, the facade
\* being set, the generation call of line 90.
create_chat_completion(r, s) ==
    /\ Arrives(r)
    /\ endpoint' = [endpoint EXCEPT ![r] = "chat"]
    /\ stream' = [stream EXCEPT ![r] = s]
    /\ IF openai_serving_chat = None
       THEN /\ get_model_config_calls' =
                  [get_model_config_calls EXCEPT
                      !.chat = @ + 1,
                      !.chat_after_failure = IF BuildQueryFailed THEN @ + 1 ELSE @]
            /\ pc' = [pc EXCEPT ![r] = "await_get_model_config"]
            /\ UNCHANGED <<facades_called, generation_calls>>
       ELSE /\ facades_called' = facades_called \cup {openai_serving_chat}
            /\ generation_calls' = [generation_calls EXCEPT ![r] = @ + 1]
            /\ pc' = [pc EXCEPT ![r] = "await_create_chat_completion"]
            /\ UNCHANGED get_model_config_calls
    /\ UNCHANGED <<openai_serving_chat, facades_constructed, generator, response, delivered>>
    /\ UNCHANGED <<config, models_given, build_vars>>

\* variant: the facade is built but not stored in self.openai_serving_chat
BuildFacade_NotStored(r) ==
    /\ pc[r] = "await_get_model_config"
    /\ models_given' = models_given \cup {[by |-> "chat", models |-> Registry]}
    /\ facades_constructed' = facades_constructed + 1
    /\ facades_called' = facades_called \cup {facades_constructed + 1}
    /\ generation_calls' = [generation_calls EXCEPT ![r] = @ + 1]
    /\ pc' = [pc EXCEPT ![r] = "await_create_chat_completion"]
    /\ UNCHANGED <<openai_serving_chat, get_model_config_calls, endpoint, stream,
                   generator, response, delivered>>
    /\ UNCHANGED <<config, build_vars>>

\* get_model_config returns: lines 69-88 construct the registry and the facade
\* and store it, then line 90 calls the stored facade.
BuildFacade(r) ==
    /\ pc[r] = "await_get_model_config"
    /\ models_given' = models_given \cup {[by |-> "chat", models |-> Registry]}
    /\ facades_constructed' = facades_constructed + 1
    /\ openai_serving_chat' = facades_constructed + 1
    /\ facades_called' = facades_called \cup {facades_constructed + 1}
    /\ generation_calls' = [generation_calls EXCEPT ![r] = @ + 1]
    /\ pc' = [pc EXCEPT ![r] = "await_create_chat_completion"]
    /\ UNCHANGED <<get_model_config_calls, endpoint, stream, generator, response, delivered>>
    /\ UNCHANGED <<config, build_vars>>

\* variant: the facade is stored before the metadata query has returned
GetModelConfigRaises_StoresPartial(r) ==
    /\ pc[r] = "await_get_model_config"
    /\ pc' = [pc EXCEPT ![r] = "fault"]
    /\ response' = [response EXCEPT ![r] = Unhandled("get_model_config")]
    /\ facades_constructed' = facades_constructed + 1
    /\ openai_serving_chat' = facades_constructed + 1
    /\ UNCHANGED <<get_model_config_calls,
                   endpoint, stream, facades_called, generator, delivered>>
    /\ UNCHANGED <<generation_calls, config, models_given, build_vars>>

\* get_model_config raises: nothing in the handler catches it (no try at line 67)
GetModelConfigRaises(r) ==
    /\ pc[r] = "await_get_model_config"
    /\ pc' = [pc EXCEPT ![r] = "fault"]
    /\ response' = [response EXCEPT ![r] = Unhandled("get_model_config")]
    /\ UNCHANGED <<openai_serving_chat, facades_constructed, get_model_config_calls,
                   endpoint, stream, facades_called, generator, delivered>>
    /\ UNCHANGED <<generation_calls, config, models_given, build_vars>>

\* variant: an error result makes the handler drop the stored facade
GenerationReturns_ResetOnError(r, g) ==
    /\ pc[r] = "await_create_chat_completion"
    /\ g \in ServingChatResults(stream[r])
    /\ generator' = [generator EXCEPT ![r] = g]
    /\ openai_serving_chat' =
          IF g.type = "ErrorResponse" THEN None ELSE openai_serving_chat
    /\ LET resp == ChatResponse(g, stream[r])
       IN  /\ response' = [response EXCEPT ![r] = resp]
           /\ pc' = [pc EXCEPT ![r] =
                        CASE resp.type = "StreamingResponse" -> "streaming"
                          [] resp.type = "Unhandled" -> "fault"
                          [] OTHER -> "done"]
    /\ UNCHANGED <<facades_constructed, get_model_config_calls,
                   endpoint, stream, facades_called, delivered>>
    /\ UNCHANGED <<generation_calls, config, models_given, build_vars>>

\* the generation call of line 90 returns g; lines 93-101 return the response
GenerationReturns(r, g) ==
    /\ pc[r] = "await_create_chat_completion"
    /\ g \in ServingChatResults(stream[r])
    /\ generator' = [generator EXCEPT ![r] = g]
    /\ LET resp == ChatResponse(g, stream[r])
       IN  /\ response' = [response EXCEPT ![r] = resp]
           /\ pc' = [pc EXCEPT ![r] =
                        CASE resp.type = "StreamingResponse" -> "streaming"
                          [] resp.type = "Unhandled" -> "fault"
                          [] OTHER -> "done"]
    /\ UNCHANGED <<openai_serving_chat, facades_constructed, get_model_config_calls,
                   endpoint, stream, facades_called, delivered>>
    /\ UNCHANGED <<generation_calls, config, models_given, build_vars>>

\* variant: a raising generation call tears the stored facade down
GenerationRaises_DropFacade(r) ==
    /\ pc[r] = "await_create_chat_completion"
    /\ pc' = [pc EXCEPT ![r] = "fault"]
    /\ response' = [response EXCEPT ![r] = Unhandled("create_chat_completion")]
    /\ openai_serving_chat' = None
    /\ UNCHANGED <<facades_constructed, get_model_config_calls,
                   endpoint, stream, facades_called, generator, delivered>>
    /\ UNCHANGED <<generation_calls, config, models_given, build_vars>>

\* variant: a raising generation call is made again
GenerationRaises_Retry(r) ==
    /\ pc[r] = "await_create_chat_completion"
    /\ generation_calls[r] < 2
    /\ generation_calls' = [generation_calls EXCEPT ![r] = @ + 1]
    /\ UNCHANGED <<openai_serving_chat, facades_constructed, get_model_config_calls,
                   pc, response, endpoint, stream, facades_called, generator, delivered>>
    /\ UNCHANGED <<config, models_given, build_vars>>

\* the generation call of line 90 raises: nothing in the handler catches it
GenerationRaises(r) ==
    /\ pc[r] = "await_create_chat_completion"
    /\ pc' = [pc EXCEPT ![r] = "fault"]
    /\ response' = [response EXCEPT ![r] = Unhandled("create_chat_completion")]
    /\ UNCHANGED <<openai_serving_chat, facades_constructed, get_model_config_calls,
                   endpoint, stream, facades_called, generator, delivered>>
    /\ UNCHANGED <<generation_calls, config, models_given, build_vars>>

\* StreamingResponse iterates its content (line 98): the next chunk of the
\* generator is written to the client; the response is complete with the
\* chunk that exhausts the generator
SendChunk(r) ==
    /\ pc[r] = "streaming"
    /\ Len(delivered[r]) < Len(response[r].content.chunks)
    /\ delivered' = [delivered EXCEPT ![r] =
                        Append(@, response[r].content.chunks[Len(@) + 1])]
    /\ pc' = [pc EXCEPT ![r] =
                 IF Len(delivered[r]) + 1 = Len(response[r].content.chunks)
                 THEN "done" ELSE "streaming"]
    /\ UNCHANGED <<openai_serving_chat, facades_constructed, get_model_config_calls,
                   endpoint, stream, facades_called, generator, response>>
    /\ UNCHANGED <<generation_calls, config, models_given, build_vars>>

(* ----------------------- GET /v1/models (lines 104-119) ---------------- *)
\* variant: the metadata of the facade build is reused when the facade is set
list_models_ReuseMetadata(r) ==
    /\ Arrives(r)
    /\ endpoint' = [endpoint EXCEPT ![r] = "models"]
    /\ IF openai_serving_chat = None
       THEN /\ get_model_config_calls' =
                  [get_model_config_calls EXCEPT !.models = @ + 1]
            /\ pc' = [pc EXCEPT ![r] = "await_list_get_model_config"]
       ELSE /\ pc' = [pc EXCEPT ![r] = "await_show_available_models"]
            /\ UNCHANGED get_model_config_calls
    /\ UNCHANGED <<openai_serving_chat, facades_constructed, stream, facades_called,
                   generator, response, delivered>>
    /\ UNCHANGED <<generation_calls, config, models_given, build_vars>>

\* The request arrives and the handler runs to its first await, line 107.
list_models(r) ==
    /\ Arrives(r)
    /\ endpoint' = [endpoint EXCEPT ![r] = "models"]
    /\ get_model_config_calls' =
          [get_model_config_calls EXCEPT
              !.models = @ + 1,
              !.models_ready = IF openai_serving_chat # None THEN @ + 1 ELSE @]
    /\ pc' = [pc EXCEPT ![r] = "await_list_get_model_config"]
    /\ UNCHANGED <<openai_serving_chat, facades_constructed, stream, facades_called,
                   generator, response, delivered>>
    /\ UNCHANGED <<generation_calls, config, models_given, build_vars>>

\* variant: list_models builds and stores the chat facade as the chat handler does
ListBuildModels_StoresFacade(r) ==
    /\ pc[r] = "await_list_get_model_config"
    /\ pc' = [pc EXCEPT ![r] = "await_show_available_models"]
    /\ models_given' = models_given \cup {[by |-> "models", models |-> Registry]}
    /\ facades_constructed' = facades_constructed + 1
    /\ openai_serving_chat' = facades_constructed + 1
    /\ UNCHANGED <<get_model_config_calls, endpoint, stream, facades_called,
                   generator, response, delivered>>
    /\ UNCHANGED <<generation_calls, config, build_vars>>

\* variant: list_models leaves the LoRA modules out of its registry
ListBuildModels_NoLora(r) ==
    /\ pc[r] = "await_list_get_model_config"
    /\ pc' = [pc EXCEPT ![r] = "await_show_available_models"]
    /\ models_given' = models_given \cup
          {[by |-> "models",
            models |-> OpenAIServingModels(<<BaseModelPath(config.model, config.model)>>,
                                           NoList, config.prompt_adapters)]}
    /\ UNCHANGED <<openai_serving_chat, facades_constructed, get_model_config_calls,
                   endpoint, stream, facades_called, generator, response, delivered>>
    /\ UNCHANGED <<generation_calls, config, build_vars>>

\* get_model_config returns: lines 108-118 build a local registry, line 119
\* awaits its show_available_models
ListBuildModels(r) ==
    /\ pc[r] = "await_list_get_model_config"
    /\ pc' = [pc EXCEPT ![r] = "await_show_available_models"]
    /\ models_given' = models_given \cup {[by |-> "models", models |-> Registry]}
    /\ UNCHANGED <<openai_serving_chat, facades_constructed, get_model_config_calls,
                   endpoint, stream, facades_called, generator, response, delivered>>
    /\ UNCHANGED <<generation_calls, config, build_vars>>

\* get_model_config raises in list_models: not caught
ListGetModelConfigRaises(r) ==
    /\ pc[r] = "await_list_get_model_config"
    /\ pc' = [pc EXCEPT ![r] = "fault"]
    /\ response' = [response EXCEPT ![r] = Unhandled("get_model_config")]
    /\ UNCHANGED <<openai_serving_chat, facades_constructed, get_model_config_calls,
                   endpoint, stream, facades_called, generator, delivered>>
    /\ UNCHANGED <<generation_calls, config, models_given, build_vars>>

\* show_available_models returns: line 119 returns its dump as JSON
ListModelsReturns(r) ==
    /\ pc[r] = "await_show_available_models"
    /\ pc' = [pc EXCEPT ![r] = "done"]
    /\ response' = [response EXCEPT ![r] = JSONResponse(NoResult, 200)]
    /\ UNCHANGED <<openai_serving_chat, facades_constructed, get_model_config_calls,
                   endpoint, stream, facades_called, generator, delivered>>
    /\ UNCHANGED <<generation_calls, config, models_given, build_vars>>

(* ------------------------------ Next ----------------------------------- *)
Next ==
    \/ \E r \in Requests, s \in BOOLEAN : create_chat_completion(r, s)
    \/ \E r \in Requests : BuildFacade(r)
    \/ \E r \in Requests : GetModelConfigRaises(r)
    \/ \E r \in Requests : \E g \in ServingChatResults(stream[r]) : GenerationReturns(r, g)
    \/ \E r \in Requests : GenerationRaises(r)
    \/ \E r \in Requests : SendChunk(r)
    \/ \E r \in Requests : list_models(r)
    \/ \E r \in Requests : ListBuildModels(r)
    \/ \E r \in Requests : ListGetModelConfigRaises(r)
    \/ \E r \in Requests : ListModelsReturns(r)

Spec == Init /\ [][Next]_vars

\* the same deployment code, constructed with any of the configurations
SpecRegistry == InitRegistry /\ [][Next]_vars

\* the steps of a deployment whose engine calls all return: no call raises
NextReturns ==
    \/ \E r \in Requests, s \in BOOLEAN : create_chat_completion(r, s)
    \/ \E r \in Requests : BuildFacade(r)
    \/ \E r \in Requests : \E g \in ServingChatResults(stream[r]) : GenerationReturns(r, g)
    \/ \E r \in Requests : SendChunk(r)
    \/ \E r \in Requests : list_models(r)
    \/ \E r \in Requests : ListBuildModels(r)
    \/ \E r \in Requests : ListModelsReturns(r)

\* a step of a handler that is past its arrival: an awaited call returns or
\* the next chunk is read
Resume ==
    \/ \E r \in Requests : BuildFacade(r)
    \/ \E r \in Requests : \E g \in ServingChatResults(stream[r]) : GenerationReturns(r, g)
    \/ \E r \in Requests : SendChunk(r)
    \/ \E r \in Requests : ListBuildModels(r)
    \/ \E r \in Requests : ListModelsReturns(r)

\* every awaited engine call returns and the event loop keeps running the
\* handlers that can go on (the client of a streamed response keeps reading):
\* while some handler can resume, one does
Fairness == WF_vars(Resume)

LiveSpec == Init /\ [][NextReturns]_vars /\ Fairness

TypeOK ==
    /\ openai_serving_chat \in 0..MaxRequests
    /\ facades_constructed \in 0..MaxRequests
    /\ \A r \in Requests : endpoint[r] \in {"none", "chat", "models"}

(* ======================================================================= *)
(*        Configuration translation: parse_vllm_args and build_app         *)
(* ======================================================================= *)
\* largest number of entries of a raw mapping
MaxKeys == 2
\* largest number of translations made of one mapping
MaxCalls == 2

\* Python values of a raw mapping; str is what str(value) gives
PyTrue == [py |-> "bool", str |-> "True"]
PyFalse == [py |-> "bool", str |-> "False"]
PyNone == [py |-> "NoneType", str |-> "None"]
PyStr(text) == [py |-> "str", str |-> text]
Values == {PyTrue, PyFalse, PyNone, PyStr("None"), PyStr(""), PyStr("x")}
\* keys of a raw mapping: the reserved key, two options that take a value and
\* one flag that takes none
Keys == {"accelerator", "model", "response-role", "enable-lora"}

KeysOf(m) == {m[i].key : i \in 1..Len(m)}

RECURSIVE MappingsOfLen(_)
\* the raw mappings with n entries: a dict keeps insertion order and has no
\* key twice
MappingsOfLen(n) ==
    IF n = 0 THEN {<<>>}
    ELSE {Append(m, [key |-> k, value |-> v]) :
             m \in MappingsOfLen(n - 1), k \in Keys, v \in Values}

Mappings ==
    {m \in UNION {MappingsOfLen(n) : n \in 0..MaxKeys} :
        Cardinality(KeysOf(m)) = Len(m)}

\* the strings of the argument list: f"--{key}" and str(value)
Flag(key) == <<"--", key>>
Plain(text) == <<text>>
IsFlag(token) == Len(token) = 2

RECURSIVE ArgStrings_Truthy(_)
\* variant: `if value:` in place of `if value is True:`
ArgStrings_Truthy(m) ==
    IF m = <<>> THEN <<>>
    ELSE LET key == Head(m).key
             value == Head(m).value
             truthy == value = PyTrue \/ (value.py = "str" /\ value.str # "")
         IN  (IF truthy
              THEN <<Flag(key)>>
              ELSE IF ~(value = PyNone \/ value = PyStr("None"))
                   THEN <<Flag(key), Plain(value.str)>>
                   ELSE <<Flag(key)>>)
             \o ArgStrings_Truthy(Tail(m))

RECURSIVE ArgStrings(_)
\* lines 132-141: the argument list parse_vllm_args builds from the mapping
ArgStrings(m) ==
    IF m = <<>> THEN <<>>
    ELSE LET key == Head(m).key
             value == Head(m).value
         IN  (IF value = PyTrue
              THEN <<Flag(key)>>
              ELSE IF ~(value = PyNone \/ value = PyStr("None"))
                   THEN <<Flag(key), Plain(value.str)>>
                   ELSE <<Flag(key)>>)
             \o ArgStrings(Tail(m))

\* the model the engine's argument parser takes when --model is not given
DefaultModel == "facebook/opt-125m"
\* what parse_args returns when no argument is given
Defaults ==
    [ok |-> TRUE, model |-> DefaultModel, response_role |-> "assistant",
     enable_lora |-> FALSE]
\* parse_args rejects the argument list (argparse exits the process)
ParseError == [ok |-> FALSE, model |-> "", response_role |-> "", enable_lora |-> FALSE]

RECURSIVE ParseFrom(_, _)
\* line 143, parser.parse_args of the parser of lines 127-131: an option takes
\* the string after it, a store-true flag takes none, an unknown flag or a
\* string that belongs to no option is rejected
ParseFrom(args, ns) ==
    IF args = <<>> THEN ns
    ELSE LET t == Head(args)
         IN  IF ~IsFlag(t) THEN ParseError
             ELSE IF t[2] \in {"model", "response-role"}
                  THEN IF Len(args) >= 2 /\ ~IsFlag(args[2])
                       THEN ParseFrom(SubSeq(args, 3, Len(args)),
                                      IF t[2] = "model"
                                      THEN [ns EXCEPT !.model = args[2][1]]
                                      ELSE [ns EXCEPT !.response_role = args[2][1]])
                       ELSE ParseError
                  ELSE IF t[2] = "enable-lora"
                       THEN ParseFrom(Tail(args), [ns EXCEPT !.enable_lora = TRUE])
                       ELSE ParseError

parse_args(args) == ParseFrom(args, Defaults)

\* no engine arguments: the translation did not get that far
NoEngineArgs == [model |-> "", enable_lora |-> FALSE, worker_use_ray |-> FALSE]
\* lines 160-161: AsyncEngineArgs.from_cli_args, then worker_use_ray = True
EngineArgs(parsed) ==
    [model |-> parsed.model, enable_lora |-> parsed.enable_lora, worker_use_ray |-> TRUE]

\* the value of `accelerator` where build_app was not the function called
NoAccelerator == [py |-> "unset", str |-> ""]

RECURSIVE Without(_, _)
\* the mapping after pop(key)
Without(m, key) ==
    IF m = <<>> THEN <<>>
    ELSE IF Head(m).key = key THEN Tail(m)
         ELSE <<Head(m)>> \o Without(Tail(m), key)

\* m[key] of a mapping that has the key
ValueOf(m, key) == (CHOOSE e \in {m[i] : i \in 1..Len(m)} : e.key = key).value

\* the record kept of one translation
Call(fn, received, given, accelerator, arg_strings, parsed, engine_args, bound) ==
    [fn |-> fn, received |-> received, given |-> given, accelerator |-> accelerator,
     arg_strings |-> arg_strings, parsed |-> parsed, engine_args |-> engine_args,
     bound |-> bound]

\* the serving side does not move while the configuration is translated
ServingIdle ==
    UNCHANGED <<openai_serving_chat, facades_constructed, facades_called,
                get_model_config_calls, pc, endpoint, stream, generator, response,
                delivered, generation_calls, config, models_given>>

\* lines 121-144: the caller translates its mapping with parse_vllm_args
parse_vllm_args ==
    /\ Len(calls) < MaxCalls
    /\ LET arg_strings == ArgStrings(cli_args)
           parsed == parse_args(arg_strings)
       IN  calls' = Append(calls,
                      Call("parse_vllm_args", cli_args, cli_args, NoAccelerator,
                           arg_strings, parsed, NoEngineArgs, FALSE))
    /\ UNCHANGED <<cli_args, caller_args>>
    /\ ServingIdle

\* variant: the reserved key is read with get and stays in the mapping
build_app_KeepsKey ==
    /\ Len(calls) < MaxCalls
    /\ LET accelerator == IF "accelerator" \in KeysOf(cli_args)
                          THEN ValueOf(cli_args, "accelerator") ELSE PyStr("GPU")
           arg_strings == ArgStrings(cli_args)
           parsed == parse_args(arg_strings)
       IN  calls' = Append(calls,
                      Call("build_app", cli_args, cli_args, accelerator, arg_strings,
                           parsed,
                           IF parsed.ok THEN EngineArgs(parsed) ELSE NoEngineArgs,
                           parsed.ok))
    /\ UNCHANGED <<cli_args, caller_args>>
    /\ ServingIdle

\* variant: the translation takes every entry it has processed out of the mapping
build_app_ConsumesArgs ==
    /\ Len(calls) < MaxCalls
    /\ LET accelerator == IF "accelerator" \in KeysOf(cli_args)
                          THEN ValueOf(cli_args, "accelerator") ELSE PyStr("GPU")
           rest == Without(cli_args, "accelerator")
           arg_strings == ArgStrings(rest)
           parsed == parse_args(arg_strings)
       IN  calls' = Append(calls,
                      Call("build_app", cli_args, rest, accelerator, arg_strings,
                           parsed,
                           IF parsed.ok THEN EngineArgs(parsed) ELSE NoEngineArgs,
                           parsed.ok))
    /\ cli_args' = <<>>
    /\ UNCHANGED caller_args
    /\ ServingIdle

\* lines 147-187: the caller builds the application from its mapping.  The
\* reserved key is popped out of the caller's mapping (lines 155-158), the
\* rest is translated (line 159); when parse_args rejects it the call ends
\* there and no deployment is bound (lines 168-183 are not reached)
build_app ==
    /\ Len(calls) < MaxCalls
    /\ LET accelerator == IF "accelerator" \in KeysOf(cli_args)
                          THEN ValueOf(cli_args, "accelerator") ELSE PyStr("GPU")
           rest == Without(cli_args, "accelerator")
           arg_strings == ArgStrings(rest)
           parsed == parse_args(arg_strings)
       IN  /\ cli_args' = rest
           /\ calls' = Append(calls,
                         Call("build_app", cli_args, rest, accelerator, arg_strings,
                              parsed,
                              IF parsed.ok THEN EngineArgs(parsed) ELSE NoEngineArgs,
                              parsed.ok))
    /\ UNCHANGED caller_args
    /\ ServingIdle

\* the caller holds any raw mapping; no deployment serves yet
InitCfg ==
    /\ cli_args \in Mappings
    /\ caller_args = cli_args
    /\ calls = <<>>
    /\ config = DeployedConfig
    /\ ServingInit

NextCfg ==
    \/ parse_vllm_args
    \/ build_app

SpecCfg == InitCfg /\ [][NextCfg]_vars

(* ======================================================================= *)
(*                              Properties                                 *)
(* ======================================================================= *)
ChatRequests == {r \in Requests : endpoint[r] = "chat"}
ModelsRequests == {r \in Requests : endpoint[r] = "models"}
\* the facade state of the deployment is Ready
Ready == openai_serving_chat # None

\* C1: as long as no metadata query of a build has failed, chat requests
\* issued against a fresh instance cause exactly one get_model_config call
\* for building the facade, however many requests there are and however
\* their handlers interleave.
C1_ExactlyOneBuildQuery ==
    (ChatRequests # {} /\ ~BuildQueryFailed) => get_model_config_calls.chat = 1

\* C2: at most one OpenAIServingChat is ever constructed, and all chat
\* requests that reached the generation call were dispatched to one and the
\* same facade object: create_chat_completion has been called on at most one.
C2_SingleFacade ==
    /\ facades_constructed <= 1
    /\ Cardinality(facades_called) <= 1

\* C3: once openai_serving_chat is set, no step of any request, of either
\* endpoint and whatever its outcome, sets it back to None.
C3_ReadyIsTerminal ==
    [][Ready => Ready']_vars

\* C3 witness: the facade is Ready after a chat request ended in an unhandled
\* fault and a models request completed.
C3_Witness ==
    /\ Ready
    /\ \E r \in ChatRequests :
          pc[r] = "fault" /\ response[r] = Unhandled("create_chat_completion")
    /\ \E r \in ModelsRequests : pc[r] = "done"

\* C4: a chat request with stream = false never gets a streamed response and
\* never trips the assertion of line 100; once the serving layer has returned
\* a result, the response is a JSON body, the error body when the result is an
\* ErrorResponse and the 200 completion body otherwise, and no chunk is sent.
C4_NonStreamingShape ==
    \A r \in ChatRequests :
        ~stream[r] =>
            /\ response[r].type # "StreamingResponse"
            /\ response[r] # Unhandled("AssertionError")
            /\ pc[r] # "streaming"
            /\ delivered[r] = <<>>
            /\ generator[r].type # "None" =>
                  /\ pc[r] = "done"
                  /\ response[r].type = "JSONResponse"
                  /\ response[r].content = generator[r]
                  /\ (response[r].status_code = 200)
                        <=> (generator[r].type = "ChatCompletionResponse")

\* C4 witness: a non-streaming request was answered with the buffered completion.
C4_Witness ==
    \E r \in ChatRequests :
        /\ ~stream[r]
        /\ pc[r] = "done"
        /\ generator[r].type = "ChatCompletionResponse"
        /\ response[r].type = "JSONResponse"

\* C5: a chat request with stream = true whose generation call returned a
\* chunk generator gets a StreamingResponse of media type text/event-stream,
\* what the client has received is at every moment a prefix of the chunks
\* the engine produces, and it is all of them when the response is complete.
C5_StreamInOrder ==
    \A r \in ChatRequests :
        (stream[r] /\ generator[r].type = "AsyncGenerator") =>
            /\ response[r].type = "StreamingResponse"
            /\ response[r].media_type = "text/event-stream"
            /\ response[r].status_code = 200
            /\ Len(delivered[r]) <= Len(generator[r].chunks)
            /\ delivered[r] = SubSeq(generator[r].chunks, 1, Len(delivered[r]))
            /\ pc[r] \in {"streaming", "done"}
            /\ pc[r] = "done" => delivered[r] = generator[r].chunks

\* C5 witness: a streamed response of two different chunks was delivered whole.
C5_Witness ==
    \E r \in ChatRequests :
        /\ stream[r]
        /\ pc[r] = "done"
        /\ Len(delivered[r]) = MaxChunks
        /\ delivered[r][1] # delivered[r][2]

\* C6: when the serving layer returns an ErrorResponse, with stream true or
\* false, the response is a JSON body carrying that error with the error's
\* code as HTTP status; it is not a 200 body and nothing is streamed.
C6_ErrorStatus ==
    \A r \in ChatRequests :
        generator[r].type = "ErrorResponse" =>
            /\ pc[r] = "done"
            /\ response[r].type = "JSONResponse"
            /\ response[r].media_type = "application/json"
            /\ response[r].content = generator[r]
            /\ response[r].status_code = generator[r].code
            /\ response[r].status_code # 200
            /\ delivered[r] = <<>>

\* C6 witness: a streaming request and a non-streaming request both ended
\* with an error body, with different codes.
C6_Witness ==
    \E r1, r2 \in ChatRequests :
        /\ stream[r1] /\ ~stream[r2]
        /\ generator[r1].type = "ErrorResponse"
        /\ generator[r2].type = "ErrorResponse"
        /\ response[r1].status_code # response[r2].status_code

\* C7: no failure of the engine during a chat request leaves the handler as
\* an unhandled exception.
C7_NoUnhandledFault ==
    \A r \in ChatRequests : pc[r] # "fault" /\ response[r].type # "Unhandled"

\* the step completes the generation call of request r with an error: an
\* ErrorResponse returned, or an exception raised
EndsInError(r) ==
    /\ pc[r] = "await_create_chat_completion"
    /\ \/ pc'[r] = "done" /\ generator'[r].type = "ErrorResponse"
       \/ pc'[r] = "fault"

\* everything the deployment holds about request q
RequestState(q) ==
    <<pc[q], endpoint[q], stream[q], generator[q], response[q],
      delivered[q]>>

\* C8: a step in which a chat request ends in an error on a Ready deployment
\* leaves openai_serving_chat as it was and changes nothing of any other request.
C8_ErrorLeavesOthers ==
    [][\A r \in Requests :
          (Ready /\ EndsInError(r)) =>
              /\ openai_serving_chat' = openai_serving_chat
              /\ facades_constructed' = facades_constructed
              /\ \A q \in Requests \ {r} : RequestState(q)' = RequestState(q)]_vars

\* C8 witness: a chat request has ended with an error body while another
\* chat request is in flight, and the deployment is Ready.
C8_Witness ==
    /\ Ready
    /\ \E r, q \in ChatRequests :
          /\ r # q
          /\ pc[r] = "done"
          /\ generator[r].type = "ErrorResponse"
          /\ pc[q] \in {"await_create_chat_completion", "streaming"}

ModelsStep(r) ==
    /\ endpoint'[r] = "models"
    /\ pc'[r] # pc[r]

C11_RegistryFromConfig ==
    \A g \in models_given :
        /\ Len(g.models.base_model_paths) = 1
        /\ g.models.base_model_paths[1].name = config.model
        /\ g.models.base_model_paths[1].model_path = config.model
        /\ g.models.lora_modules = config.lora_modules
        /\ g.models.prompt_adapters = config.prompt_adapters

\* C11 witness: with two LoRA modules configured, the chat build and the
\* models endpoint have both handed over a registry.
C11_Witness ==
    /\ Len(config.lora_modules.paths) = 2
    /\ \E g \in models_given : g.by = "chat"
    /\ \E g \in models_given : g.by = "models"

\* C16: the handler calls openai_serving_chat.create_chat_completion at most
\* once per chat request (never for a models request); a request whose call
\* returned an ErrorResponse or raised has ended with exactly one call made.
C16_NoRetry ==
    \A r \in Requests :
        /\ generation_calls[r] <= 1
        /\ endpoint[r] # "chat" => generation_calls[r] = 0
        /\ generator[r].type = "ErrorResponse" =>
              /\ generation_calls[r] = 1
              /\ pc[r] = "done"
              /\ response[r].content = generator[r]
        /\ response[r] = Unhandled("create_chat_completion") =>
              /\ generation_calls[r] = 1
              /\ pc[r] = "fault"

\* C16 witness: one request ended with an error result and another with a
\* raised failure of the generation call.
C16_Witness ==
    \E r, q \in ChatRequests :
        /\ generator[r].type = "ErrorResponse" /\ pc[r] = "done"
        /\ response[q] = Unhandled("create_chat_completion")
        /\ generation_calls[r] = 1 /\ generation_calls[q] = 1

\* chat requests whose metadata query is still awaited
PendingBuilds == {r \in ChatRequests : pc[r] = "await_get_model_config"}
\* chat requests whose metadata query raised
FailedBuilds == {r \in ChatRequests : response[r] = Unhandled("get_model_config")}

\* C18: create_chat_completion is never called on None: every facade it was
\* called on is one that was constructed, the facade is set whenever a request
\* has made its generation call, and every constructed facade comes from a
\* metadata query that returned (queries made = facades + pending + failed).
C18_GenerationAfterReady ==
    /\ None \notin facades_called
    /\ facades_called \subseteq 1..facades_constructed
    /\ \A r \in Requests : generation_calls[r] > 0 => Ready
    /\ facades_constructed + Cardinality(PendingBuilds) + Cardinality(FailedBuilds)
          = get_model_config_calls.chat

\* C18 witness: two chat requests that both started on the unset facade have
\* each made their generation call.
C18_Witness ==
    /\ get_model_config_calls.chat = 2
    /\ \E r, q \in ChatRequests :
          r # q /\ generation_calls[r] = 1 /\ generation_calls[q] = 1

\* C20: a step in which the metadata query of a build raises stores nothing:
\* openai_serving_chat, the facades constructed and the registries handed over
\* are as before; and a chat request that arrives after such a failure while
\* the facade is unset makes a metadata query of its own.
C20_FailedBuildStoresNothing ==
    [][/\ \A r \in Requests :
             (pc[r] = "await_get_model_config" /\ pc'[r] = "fault") =>
                /\ openai_serving_chat' = openai_serving_chat
                /\ facades_constructed' = facades_constructed
                /\ models_given' = models_given
       /\ \A r \in Requests :
             (BuildQueryFailed /\ ~Ready /\ pc[r] = "idle" /\ endpoint'[r] = "chat") =>
                /\ pc'[r] = "await_get_model_config"
                /\ get_model_config_calls'.chat = get_model_config_calls.chat + 1]_vars

\* C20 witness: after the metadata query of a build raised, the facade is
\* unset and a later chat request is waiting for its own metadata query.
C20_Witness ==
    /\ ~Ready
    /\ FailedBuilds # {}
    /\ get_model_config_calls.chat_after_failure >= 1
    /\ PendingBuilds # {}

(* ----------------- properties of the configuration translation ---------- *)
\* the values the claim names as giving a bare flag
BareValues == {PyTrue, PyNone, PyStr("None")}

RECURSIVE ExpectedArgs(_)
\* per entry, in mapping order: the flag alone for a bare value, the flag and
\* the string form of the value otherwise
ExpectedArgs(m) ==
    IF m = <<>> THEN <<>>
    ELSE (IF Head(m).value \in BareValues
          THEN <<Flag(Head(m).key)>>
          ELSE <<Flag(Head(m).key), Plain(Head(m).value.str)>>)
         \o ExpectedArgs(Tail(m))

\* how often a string occurs in an argument list
Occurrences(args, token) == Cardinality({i \in 1..Len(args) : args[i] = token})

\* C12: the argument list of every translation holds, in mapping order, the
\* flag of each key exactly once, bare for the values True, None and "None"
\* and followed by the one string str(value) for every other value.
C12_FlagPerKey ==
    \A i \in 1..Len(calls) :
        /\ calls[i].arg_strings = ExpectedArgs(calls[i].given)
        /\ \A k \in Keys :
              Occurrences(calls[i].arg_strings, Flag(k))
                  = IF k \in KeysOf(calls[i].given) THEN 1 ELSE 0

\* C12 witness: a mapping with the value False and with the string "None" was
\* translated: --key False for the one, the bare flag for the other.
C12_Witness ==
    \E i \in 1..Len(calls) :
        /\ \E j \in 1..Len(calls[i].given) : calls[i].given[j].value = PyFalse
        /\ \E j \in 1..Len(calls[i].given) : calls[i].given[j].value = PyStr("None")
        /\ Len(calls[i].arg_strings) = 3

\* C13: two translations in succession of the same mapping object by the same
\* function give the same result: the same parsed arguments, the same engine
\* arguments, a deployment bound both times or neither.
C13_Idempotent ==
    \A i \in 1..(Len(calls) - 1) :
        calls[i].fn = calls[i + 1].fn =>
            /\ calls[i].parsed = calls[i + 1].parsed
            /\ calls[i].engine_args = calls[i + 1].engine_args
            /\ calls[i].bound = calls[i + 1].bound

\* C13 witness: build_app has twice bound a deployment from a mapping that
\* carried the reserved key and a model.
C13_Witness ==
    /\ Len(calls) = 2
    /\ "accelerator" \in KeysOf(caller_args)
    /\ calls[1].fn = "build_app" /\ calls[2].fn = "build_app"
    /\ calls[1].bound /\ calls[2].bound
    /\ calls[1].engine_args.model = "x"

\* C14: after a translation has returned, the caller's mapping holds the
\* entries it held before.
C14_InputUntouched ==
    calls # <<>> => cli_args = caller_args

\* C15: the argument list build_app hands to the parser never holds
\* --accelerator, the mapping it translates has no such key, and the
\* accelerator is the value of the key, GPU when the key is absent.
C15_AcceleratorConsumed ==
    \A i \in 1..Len(calls) :
        calls[i].fn = "build_app" =>
            /\ Occurrences(calls[i].arg_strings, Flag("accelerator")) = 0
            /\ "accelerator" \notin KeysOf(calls[i].given)
            /\ calls[i].accelerator =
                  IF "accelerator" \in KeysOf(calls[i].received)
                  THEN ValueOf(calls[i].received, "accelerator")
                  ELSE PyStr("GPU")

\* C15 witness: build_app was called with the reserved key present, and again
\* with it absent, where the accelerator was GPU.
C15_Witness ==
    /\ Len(calls) = 2
    /\ calls[1].fn = "build_app" /\ calls[2].fn = "build_app"
    /\ "accelerator" \in KeysOf(calls[1].received)
    /\ calls[1].accelerator = PyStr("x")
    /\ calls[2].accelerator = PyStr("GPU")

\* C17: a translation of a mapping without the model key fails, and no
\* deployment is bound.
C17_MissingModelFails ==
    \A i \in 1..Len(calls) :
        "model" \notin KeysOf(calls[i].received) =>
            ~calls[i].parsed.ok /\ ~calls[i].bound

(* ------------------------------ liveness -------------------------------- *)
\* the handler has returned a response object for request r
Answered(r) == response[r].type \in {"JSONResponse", "StreamingResponse"}

\* every chat request received so far has completed with a response, and the
\* facade is set if there is any
AllAnswered ==
    \A r \in Requests :
        endpoint[r] = "chat" => (Ready /\ pc[r] = "done" /\ Answered(r))

\* C19: when every engine call returns and the handlers are scheduled fairly,
\* the deployment comes to rest with the facade set and every chat request
\* it has received completed with a response (requests are finitely many, so
\* each of them is answered eventually), and the response of a request, once
\* returned, is never replaced by another.
C19_EventuallyAnswered ==
    /\ <>[]AllAnswered
    /\ [][\A r \in Requests : Answered(r) => response'[r] = response[r]]_vars

\* C19 witness: two chat requests that both arrived before the facade was
\* stored have both been answered and have completed.
C19_Witness ==
    /\ Ready
    /\ get_model_config_calls.chat = 2
    /\ \A r \in ChatRequests : pc[r] = "done" /\ Answered(r)

====
